---- MODULE Spec2Model ----
(***************************************************************************)
(* A model of the statement-converter parsing core: the two pipeline       *)
(* variants src/app.py ("app") and src/app-v2.py ("v2").  Text is modelled *)
(* as TLA+ strings, handled character by character; a transaction record   *)
(* is [date, description, amount, balance], four strings, as in the code.  *)
(***************************************************************************)
EXTENDS Integers, Sequences, FiniteSets, TLC

\* variant       which parser runs: "app" (src/app.py) or "v2" (src/app-v2.py)
\* pages         pdf.pages, the document handed to extract_transactions_from_pdf
\* pc, pageNo    where extract_transactions_from_pdf stands; the pages read so far
\* transactions  its local list of the records read from the pages
\* output        the list it returns
\* again         _clean_and_format_transactions applied to the returned list
\* entry, path   one line of a statement, as its date, its description and its
\*               numeric tokens, and the parser it was handed to: "text" (the
\*               line parser), "table" (the table row parser) or "opening" (the
\*               search for the explicit opening balance); "" before that
\* parser        the attributes of the BankStatementParser that get_parser shares
\* calls         the calls of extract_transactions_from_pdf under way on that
\*               parser, each with its own pdf and its own local variables
VARIABLES variant, pages, pc, pageNo, transactions, output, again,
          entry, path, parser, calls

entryVars == <<entry, path>>

sharedVars == <<parser, calls>>

vars == <<variant, pages, pc, pageNo, transactions, output, again, entryVars, sharedVars>>

-----------------------------------------------------------------------------
(* Bounds of the model.                                                    *)

MaxLen == 3

MaxPages == 2

-----------------------------------------------------------------------------
(* Python's str operations, on TLA+ strings.                               *)

\* Python evaluates an argument or an assignment once; TLC evaluates a
\* parameter or a LET definition wherever it is used.  With(e, F) evaluates e
\* once and applies F to its value.
With(e, F(_)) == CHOOSE r \in {F(v) : v \in {e}} : TRUE

\* s[i-1], or "" outside the string
Char(s, i) == IF i >= 1 /\ i <= Len(s) THEN SubSeq(s, i, i) ELSE ""

Min(a, b) == IF a < b THEN a ELSE b

Max(a, b) == IF a > b THEN a ELSE b

DigitChars == "0123456789"

DigitVal ==
    ("0" :> 0) @@ ("1" :> 1) @@ ("2" :> 2) @@ ("3" :> 3) @@ ("4" :> 4) @@
    ("5" :> 5) @@ ("6" :> 6) @@ ("7" :> 7) @@ ("8" :> 8) @@ ("9" :> 9)

LowerOf ==
    ("A" :> "a") @@ ("B" :> "b") @@ ("C" :> "c") @@ ("D" :> "d") @@ ("E" :> "e") @@
    ("F" :> "f") @@ ("G" :> "g") @@ ("H" :> "h") @@ ("I" :> "i") @@ ("J" :> "j") @@
    ("K" :> "k") @@ ("L" :> "l") @@ ("M" :> "m") @@ ("N" :> "n") @@ ("O" :> "o") @@
    ("P" :> "p") @@ ("Q" :> "q") @@ ("R" :> "r") @@ ("S" :> "s") @@ ("T" :> "t") @@
    ("U" :> "u") @@ ("V" :> "v") @@ ("W" :> "w") @@ ("X" :> "x") @@ ("Y" :> "y") @@
    ("Z" :> "z")

LowerLetters ==
    {"a", "b", "c", "d", "e", "f", "g", "h", "i", "j", "k", "l", "m",
     "n", "o", "p", "q", "r", "s", "t", "u", "v", "w", "x", "y", "z"}

MinOf(S) == With(S, LAMBDA T : CHOOSE x \in T : \A y \in T : x <= y)

MaxOf(S) == With(S, LAMBDA T : CHOOSE x \in T : \A y \in T : x >= y)

\* the first position >= i of character c in s, 0 if none
IndexIn(c, s, i) ==
    With(s, LAMBDA t :
    With({j \in i..Len(t) : Char(t, j) = c}, LAMBDA hits :
        IF hits = {} THEN 0 ELSE MinOf(hits)))

IsDigit(c) == c \in DOMAIN DigitVal

IsLetter(c) == c \in DOMAIN LowerOf \/ c \in LowerLetters

\* \w of the re module, on ASCII text
IsWordChar(c) == IsDigit(c) \/ IsLetter(c) \/ c = "_"

\* \s of the re module, and the characters str.strip() and str.split() remove
IsSpace(c) == c \in {" ", "\n", "\t", "\r"}

LowerChar(c) == IF c \in DOMAIN LowerOf THEN LowerOf[c] ELSE c

\* str.lower()
RECURSIVE lower(_)
lower(s) ==
    With(s, LAMBDA t :
        IF Len(t) = 0 THEN ""
        ELSE IF Len(t) = 1 THEN LowerChar(t)
        ELSE lower(SubSeq(t, 1, Len(t) \div 2)) \o lower(SubSeq(t, Len(t) \div 2 + 1, Len(t))))

\* sub in s
Contains(s, sub) ==
    \E t \in {s}, u \in {sub} :
        \E i \in 1..(Len(t) - Len(u) + 1) : SubSeq(t, i, i + Len(u) - 1) = u

\* any(phrase in s for phrase in phrases)
AnyIn(phrases, s) == \E t \in {s} : \E p \in phrases : Contains(t, p)

\* s[:n]
Prefix(s, n) == With(s, LAMBDA t : SubSeq(t, 1, Min(n, Len(t))))

\* s[n:], n counted from 0 as in Python
Suffix(s, n) == With(s, LAMBDA t : SubSeq(t, n + 1, Len(t)))

NonSpaces(s) == With(s, LAMBDA t : {i \in 1..Len(t) : ~IsSpace(Char(t, i))})

lstrip(s) ==
    With(s, LAMBDA t :
    With(NonSpaces(t), LAMBDA kept :
        IF kept = {} THEN "" ELSE SubSeq(t, MinOf(kept), Len(t))))

rstrip(s) ==
    With(s, LAMBDA t :
    With(NonSpaces(t), LAMBDA kept :
        IF kept = {} THEN "" ELSE SubSeq(t, 1, MaxOf(kept))))

\* str.strip()
strip(s) == lstrip(rstrip(s))

\* str.replace(old, new): every non-overlapping occurrence, left to right
RECURSIVE replace(_, _, _)
replace(s, old, new) ==
    With(s, LAMBDA t :
    With(old, LAMBDA o :
    With({i \in 1..(Len(t) - Len(o) + 1) : SubSeq(t, i, i + Len(o) - 1) = o}, LAMBDA hits :
        IF o = "" \/ hits = {} THEN t
        ELSE With(MinOf(hits), LAMBDA i :
                 SubSeq(t, 1, i - 1) \o new \o replace(Suffix(t, i + Len(o) - 1), o, new)))))

\* ' '.join(s.split()): runs of whitespace become one space, the ends are stripped
RECURSIVE JoinWords(_)
JoinWords(s) ==
    With(lstrip(s), LAMBDA t :
    With({i \in 1..Len(t) : IsSpace(Char(t, i))}, LAMBDA spaces :
        IF t = "" THEN ""
        ELSE IF spaces = {} THEN t
        ELSE With(MinOf(spaces), LAMBDA e :
             With(JoinWords(Suffix(t, e)), LAMBDA rest :
                 IF rest = "" THEN SubSeq(t, 1, e - 1)
                 ELSE SubSeq(t, 1, e - 1) \o " " \o rest))))

AllDigits(s) == \A t \in {s} : \A i \in 1..Len(t) : IsDigit(Char(t, i))

\* the value of a string of digits
RECURSIVE ToInt(_)
ToInt(s) ==
    With(s, LAMBDA t :
        IF t = "" THEN 0
        ELSE ToInt(SubSeq(t, 1, Len(t) - 1)) * 10 + DigitVal[Char(t, Len(t))])

\* str(n) for n >= 0
RECURSIVE ToStr(_)
ToStr(n) ==
    With(n, LAMBDA k :
        IF k < 10 THEN Char(DigitChars, k + 1)
        ELSE ToStr(k \div 10) \o Char(DigitChars, (k % 10) + 1))

-----------------------------------------------------------------------------
(* datetime.strptime(date, '%d/%m/%Y'): [ok, key]; ok is FALSE where       *)
(* strptime raises ValueError, key orders the dates that parse.            *)

IsLeap(y) == (y % 4 = 0 /\ y % 100 # 0) \/ y % 400 = 0

DaysInMonth(y, m) ==
    IF m = 2 THEN (IF IsLeap(y) THEN 29 ELSE 28)
    ELSE IF m \in {4, 6, 9, 11} THEN 30 ELSE 31

strptime(s) ==
    With(s, LAMBDA t :
    With(IndexIn("/", t, 1), LAMBDA p1 :
    With(IF p1 = 0 THEN 0 ELSE IndexIn("/", t, p1 + 1), LAMBDA p2 :
    With(SubSeq(t, 1, p1 - 1), LAMBDA dd :
    With(SubSeq(t, p1 + 1, p2 - 1), LAMBDA mm :
    With(SubSeq(t, p2 + 1, Len(t)), LAMBDA yy :
        IF /\ p1 > 0 /\ p2 > 0
           /\ Len(dd) \in 1..2 /\ AllDigits(dd)
           /\ Len(mm) \in 1..2 /\ AllDigits(mm)
           /\ Len(yy) = 4 /\ AllDigits(yy)
        THEN With(ToInt(dd), LAMBDA d :
             With(ToInt(mm), LAMBDA m :
             With(ToInt(yy), LAMBDA y :
                 IF y >= 1 /\ m \in 1..12 /\ d >= 1 /\ d <= DaysInMonth(y, m)
                 THEN [ok |-> TRUE, key |-> y * 10000 + m * 100 + d]
                 ELSE [ok |-> FALSE, key |-> 0])))
        ELSE [ok |-> FALSE, key |-> 0]))))))

-----------------------------------------------------------------------------
(* float(s) of a decimal string with at most two decimals: [ok, u, f], the *)
(* value u + f/100 with u and f of one sign; ok is FALSE where float       *)
(* raises ValueError.  Integers are 32 bits wide here, so an integer part  *)
(* of more than nine digits is read as HugeUnits, above every value the    *)
(* code compares it with.                                                  *)

HugeUnits == 1000000000

RECURSIVE strip_zeros(_)
strip_zeros(s) ==
    With(s, LAMBDA t : IF Len(t) > 1 /\ Head(t) = "0" THEN strip_zeros(Tail(t)) ELSE t)

Units(digits) ==
    With(digits, LAMBDA t : IF Len(strip_zeros(t)) > 9 THEN HugeUnits ELSE ToInt(t))

ParseFloat(s) ==
    With(s, LAMBDA t :
    With(t # "" /\ Head(t) = "-", LAMBDA neg :
    With(IF neg THEN Tail(t) ELSE t, LAMBDA body :
    With(IndexIn(".", body, 1), LAMBDA dot :
    With(IF dot = 0 THEN body ELSE SubSeq(body, 1, dot - 1), LAMBDA ip :
    With(IF dot = 0 THEN "" ELSE SubSeq(body, dot + 1, Len(body)), LAMBDA fp :
        IF /\ AllDigits(ip) /\ AllDigits(fp)
           /\ Len(ip) + Len(fp) > 0 /\ Len(fp) <= 2
        THEN With(IF Len(fp) = 0 THEN 0
                  ELSE IF Len(fp) = 1 THEN ToInt(fp) * 10 ELSE ToInt(fp), LAMBDA frac :
             With(Units(ip), LAMBDA units :
                 [ok |-> TRUE, u |-> IF neg THEN 0 - units ELSE units,
                               f |-> IF neg THEN 0 - frac ELSE frac]))
        ELSE [ok |-> FALSE, u |-> 0, f |-> 0]))))))

Zero == [ok |-> TRUE, u |-> 0, f |-> 0]

\* x - y
Minus(x, y) ==
    With(x.u - y.u, LAMBDA u :
    With(x.f - y.f, LAMBDA f :
    With(IF f >= 100 THEN u + 1 ELSE IF f <= -100 THEN u - 1 ELSE u, LAMBDA uu :
    With(IF f >= 100 THEN f - 100 ELSE IF f <= -100 THEN f + 100 ELSE f, LAMBDA ff :
        IF uu > 0 /\ ff < 0 THEN [ok |-> TRUE, u |-> uu - 1, f |-> ff + 100]
        ELSE IF uu < 0 /\ ff > 0 THEN [ok |-> TRUE, u |-> uu + 1, f |-> ff - 100]
        ELSE [ok |-> TRUE, u |-> uu, f |-> ff]))))

\* x + y
Plus(x, y) == With(y, LAMBDA z : Minus(x, [ok |-> TRUE, u |-> 0 - z.u, f |-> 0 - z.f]))

\* x > 0, x < 0
Positive(x) == \E z \in {x} : z.u > 0 \/ (z.u = 0 /\ z.f > 0)

Negative(x) == \E z \in {x} : z.u < 0 \/ (z.u = 0 /\ z.f < 0)

\* x >= n/100, for 0 <= n <= 100
AtLeastCents(x, n) == \E z \in {x} : z.u >= 1 \/ (z.u = 0 /\ z.f >= n)

\* f"{x:.2f}"
Format2(x) ==
    With(x, LAMBDA z :
    With(IF z.u < 0 THEN 0 - z.u ELSE z.u, LAMBDA au :
    With(IF z.f < 0 THEN 0 - z.f ELSE z.f, LAMBDA af :
        (IF Negative(z) THEN "-" ELSE "") \o ToStr(au) \o "."
            \o (IF af < 10 THEN "0" ELSE "") \o ToStr(af))))

-----------------------------------------------------------------------------
(* The regular expressions of the parsers, matched as the re module does:  *)
(* leftmost, greedy, backtracking.                                         *)

\* \d{n} at position i
DigitsAt(s, i, n) == i + n - 1 <= Len(s) /\ AllDigits(SubSeq(s, i, i + n - 1))

\* \b between positions i-1 and i
Boundary(s, i) == IsWordChar(Char(s, i - 1)) # IsWordChar(Char(s, i))

\* the length of the match of \d{1,2}/\d{1,2}/\d{4} at position i (with \b on
\* both sides when bounded), 0 if none
DateLenAt(s, i, bounded) ==
    LET try(a, b) ==
            /\ DigitsAt(s, i, a) /\ Char(s, i + a) = "/"
            /\ DigitsAt(s, i + a + 1, b) /\ Char(s, i + a + b + 1) = "/"
            /\ DigitsAt(s, i + a + b + 2, 4)
            /\ bounded => (Boundary(s, i) /\ Boundary(s, i + a + b + 6))
    IN  IF ~IsDigit(Char(s, i)) THEN 0
        ELSE IF try(2, 2) THEN 10
        ELSE IF try(2, 1) \/ try(1, 2) THEN 9
        ELSE IF try(1, 1) THEN 8
        ELSE 0

\* re.search of the date pattern: [start, len] of the leftmost match, start 0 if none
date_search(s, bounded) ==
    With(s, LAMBDA t :
    With({i \in 1..Len(t) : DateLenAt(t, i, bounded) > 0}, LAMBDA hits :
        IF hits = {} THEN [start |-> 0, len |-> 0]
        ELSE With(MinOf(hits), LAMBDA i : [start |-> i, len |-> DateLenAt(t, i, bounded)])))

has_date(s, bounded) == date_search(s, bounded).start > 0

\* date_match.group(1)
date_group(s, bounded) ==
    With(s, LAMBDA t :
    With(date_search(t, bounded), LAMBDA m : SubSeq(t, m.start, m.start + m.len - 1)))

\* str.zfill(2)
zfill2(s) == With(s, LAMBDA t : IF Len(t) < 2 THEN "0" \o t ELSE t)

normalize_date_unpadded(date) == date

\* day, month, year = date.split('/'); f"{day.zfill(2)}/{month.zfill(2)}/{year}"
normalize_date(date) ==
    With(date, LAMBDA t :
    With(IndexIn("/", t, 1), LAMBDA p1 :
    With(IndexIn("/", t, p1 + 1), LAMBDA p2 :
        zfill2(SubSeq(t, 1, p1 - 1)) \o "/" \o zfill2(SubSeq(t, p1 + 1, p2 - 1))
            \o "/" \o SubSeq(t, p2 + 1, Len(t)))))

\* the three number patterns: \b\d{1,3}(?:,\d{3})*<dot>\d{lo,hi}\b
StrictNumber == [dot_required |-> TRUE, lo |-> 2, hi |-> 2]

LooseNumber == [dot_required |-> FALSE, lo |-> 0, hi |-> 2]

OpeningNumber == [dot_required |-> FALSE, lo |-> 2, hi |-> 2]

\* how many (?:,\d{3}) groups stand at position p
RECURSIVE GroupsAt(_, _)
GroupsAt(s, p) ==
    With(p, LAMBDA q :
        IF Char(s, q) = "," /\ DigitsAt(s, q + 1, 3) THEN 1 + GroupsAt(s, q + 4) ELSE 0)

\* the length of the match of a number pattern at position i, 0 if none: of the
\* ways to match, the one the backtracking finds first (each part as long as
\* it can be, the earlier part first)
NumberLenAt(s, i, pat) ==
    IF ~IsDigit(Char(s, i)) \/ ~Boundary(s, i) THEN 0
    ELSE
    With(Max(GroupsAt(s, i + 1), Max(GroupsAt(s, i + 2), GroupsAt(s, i + 3))), LAMBDA kmax :
    LET ok(c) ==
            \E n1 \in {c[1]}, k \in {c[2]}, dot \in {c[3]}, n2 \in {c[4]} :
                /\ DigitsAt(s, i, n1)
                /\ k <= GroupsAt(s, i + n1)
                /\ dot = 1 => Char(s, i + n1 + 4 * k) = "."
                /\ DigitsAt(s, i + n1 + 4 * k + dot, n2)
                /\ Boundary(s, i + n1 + 4 * k + dot + n2)
        rank(c) == ((c[1] * (kmax + 1) + c[2]) * 2 + c[3]) * 3 + c[4]
    IN  With({c \in (1..3) \X (0..kmax) \X (IF pat.dot_required THEN {1} ELSE {0, 1})
                    \X (pat.lo..pat.hi) : ok(c)}, LAMBDA cands :
            IF cands = {} THEN 0
            ELSE With(CHOOSE c \in cands : \A d \in cands : rank(d) <= rank(c), LAMBDA best :
                     best[1] + 4 * best[2] + best[3] + best[4])))

\* the length of the match of the pattern at each position of s
number_lens(s, pat) == With(s, LAMBDA t : [j \in 1..Len(t) |-> NumberLenAt(t, j, pat)])

\* re.findall: the leftmost match from position i on, then the matches behind it
RECURSIVE findall_from(_, _, _)
findall_from(s, lens, i) ==
    With({j \in i..Len(s) : lens[j] > 0}, LAMBDA hits :
        IF hits = {} THEN <<>>
        ELSE With(MinOf(hits), LAMBDA j :
                 <<SubSeq(s, j, j + lens[j] - 1)>> \o findall_from(s, lens, j + lens[j])))

\* re.findall(pattern, s)
findall(s, pat) ==
    With(s, LAMBDA t :
    With(number_lens(t, pat), LAMBDA lens : findall_from(t, lens, 1)))

\* for num in numbers: description = description.replace(num, ' ')
RECURSIVE remove_numbers(_, _)
remove_numbers(s, numbers) ==
    With(numbers, LAMBDA nums :
        IF nums = <<>> THEN s
        ELSE remove_numbers(replace(s, Head(nums), " "), Tail(nums)))

\* the number of digits from position i on
DigitRun(s, i) == MinOf({j \in i..(Len(s) + 1) : ~IsDigit(Char(s, j))}) - i

\* re.sub(r'\b<prefix>\d{n,}\b', '', s), from position i on: a run of digits
\* between two non-word characters, at least Len(prefix) + n long, that starts
\* with prefix, is taken out
RECURSIVE remove_codes_from(_, _, _, _)
remove_codes_from(s, i, prefix, n) ==
    With(s, LAMBDA t :
    With(i, LAMBDA from :
    With({j \in from..Len(t) :
             /\ IsDigit(Char(t, j)) /\ Boundary(t, j)
             /\ DigitRun(t, j) >= Len(prefix) + n
             /\ SubSeq(t, j, j + Len(prefix) - 1) = prefix
             /\ Boundary(t, j + DigitRun(t, j))}, LAMBDA hits :
        IF hits = {} THEN SubSeq(t, from, Len(t))
        ELSE With(MinOf(hits), LAMBDA j :
                 SubSeq(t, from, j - 1)
                     \o remove_codes_from(t, j + DigitRun(t, j), prefix, n)))))

remove_codes_kept(s, prefix, n) == s

remove_codes(s, prefix, n) == remove_codes_from(s, 1, prefix, n)

\* re.sub(r'[^\w\s-]', ' ', s); without the hyphen kept: re.sub(r'[^\w\s]', ' ', s)
RECURSIVE blank_punctuation(_, _)
blank_punctuation(s, keep_hyphen) ==
    With(s, LAMBDA t :
        IF Len(t) = 0 THEN ""
        ELSE IF Len(t) = 1
             THEN (IF IsWordChar(t) \/ IsSpace(t) \/ (keep_hyphen /\ t = "-") THEN t ELSE " ")
        ELSE blank_punctuation(SubSeq(t, 1, Len(t) \div 2), keep_hyphen)
                 \o blank_punctuation(SubSeq(t, Len(t) \div 2 + 1, Len(t)), keep_hyphen))

\* num.replace(',', '')
no_commas(num) == replace(num, ",", "")

-----------------------------------------------------------------------------
(* The Credit/Debit Classifier.                                            *)

credit_keywords(v) ==
    IF v = "app"
    THEN {"batch dep", "deposit", "business", "herd2", "herd", "netsurit",
          "top vending rebate", "merch discount", "reversal",
          "transfer in", "credit", "salary", "refund", "merch d"}
    ELSE {"batch dep", "deposit", "business", "herd2", "netsurit",
          "top vending rebate", "merch discount", "reversal",
          "transfer in", "credit", "salary", "refund"}

\* _is_credit
is_credit(v, description) == AnyIn(credit_keywords(v), lower(description))

\* amount = transaction_amount if credit, f"-{transaction_amount}" otherwise
signed_amount(v, description, transaction_amount) ==
    IF is_credit(v, description) THEN transaction_amount ELSE "-" \o transaction_amount

Txn(d, desc, a, b) == [date |-> d, description |-> desc, amount |-> a, balance |-> b]

\* return None
None == [date |-> "", description |-> "", amount |-> "", balance |-> "", none |-> TRUE]

-----------------------------------------------------------------------------
(* app.py: the text path.                                                  *)

line_skip_phrases ==
    {"statement period", "total pages", "balance brought forward",
     "balance carried forward", "statementperiod", "totalpages"}

\* the smallest amount _parse_transaction_line takes as the transaction amount,
\* and the range of its numeric tokens, in hundredths
MaterialityCents == 100

MinTokenCents == 1

MaxTokenUnits == 999999999

\* if 0.01 <= num_value <= 999999999
in_range(num) ==
    \E x \in {ParseFloat(no_commas(num))} :
        /\ AtLeastCents(x, MinTokenCents)
        /\ (x.u < MaxTokenUnits \/ (x.u = MaxTokenUnits /\ x.f = 0))

\* the first of filtered_numbers[:-1] with a value >= 1.0, "" if none
RECURSIVE first_material(_)
first_material(nums) ==
    With(nums, LAMBDA ns :
        IF ns = <<>> THEN ""
        ELSE With(no_commas(Head(ns)), LAMBDA num :
                 IF AtLeastCents(ParseFloat(num), MaterialityCents)
                 THEN num
                 ELSE first_material(Tail(ns))))

\* the description of _parse_transaction_line: the numbers and the codes
\* taken out, the punctuation blanked, the spaces collapsed
line_description(remainder, numbers) ==
    With(JoinWords(blank_punctuation(
             remove_codes(remove_codes(remove_numbers(remainder, numbers), "", 6),
                          "00", 4), TRUE)), LAMBDA cleaned :
        IF Len(cleaned) < 2 THEN "Transaction" ELSE cleaned)

\* the amount and the balance of _parse_transaction_line
line_record_app(date, description, filtered_numbers) ==
    With(filtered_numbers, LAMBDA fn :
    With(first_material(SubSeq(fn, 1, Len(fn) - 1)), LAMBDA transaction_amount :
        Txn(date, strip(description),
            IF Len(fn) >= 2 /\ transaction_amount # ""
            THEN signed_amount("app", description, transaction_amount)
            ELSE "",
            no_commas(fn[Len(fn)]))))

\* _parse_transaction_line
parse_transaction_line(line) ==
    With(line, LAMBDA ln :
    With(date_search(ln, FALSE), LAMBDA m :
        IF m.start = 0 THEN None
        ELSE
        With(SubSeq(ln, m.start, m.start + m.len - 1), LAMBDA raw :
        With(strip(replace(ln, raw, "")), LAMBDA remainder :
            IF AnyIn(line_skip_phrases, lower(remainder)) THEN None
            ELSE
            With(findall(remainder, StrictNumber), LAMBDA strict :
            With(IF strict # <<>> THEN strict ELSE findall(remainder, LooseNumber),
                 LAMBDA numbers :
            With(SelectSeq(numbers, in_range), LAMBDA filtered_numbers :
                IF filtered_numbers = <<>> THEN None
                ELSE line_record_app(normalize_date(raw),
                                     line_description(remainder, numbers),
                                     filtered_numbers))))))))

\* text.split('\n')
RECURSIVE split_lines(_)
split_lines(text) ==
    With(text, LAMBDA t :
    With(IndexIn("\n", t, 1), LAMBDA nl :
        IF nl = 0 THEN <<t>>
        ELSE <<SubSeq(t, 1, nl - 1)>> \o split_lines(Suffix(t, nl))))

\* the length of text the continuous-text path reads after a date
ContinuousWindow == 200

\* _extract_from_continuous_text: re.split on the dates; each date with the
\* text up to the next date is parsed as one line
RECURSIVE extract_from_continuous_text(_)
extract_from_continuous_text(text) ==
    With(text, LAMBDA t :
    With(date_search(t, FALSE), LAMBDA m :
        IF m.start = 0 THEN <<>>
        ELSE
        With(SubSeq(t, m.start, m.start + m.len - 1), LAMBDA date :
        With(Suffix(t, m.start + m.len - 1), LAMBDA rest :
        With(date_search(rest, FALSE), LAMBDA nxt :
        With(IF nxt.start = 0 THEN rest ELSE SubSeq(rest, 1, nxt.start - 1),
             LAMBDA transaction_data :
        With(parse_transaction_line(
                 date \o " " \o Prefix(transaction_data, ContinuousWindow)),
             LAMBDA transaction :
            (IF transaction = None THEN <<>> ELSE <<transaction>>)
                \o extract_from_continuous_text(rest))))))))

\* the line-by-line loop of _process_transaction_text
RECURSIVE parse_lines_app(_)
parse_lines_app(lines) ==
    With(lines, LAMBDA ls :
        IF ls = <<>> THEN <<>>
        ELSE With(strip(Head(ls)), LAMBDA line :
             With(IF line # "" /\ has_date(line, FALSE)
                  THEN parse_transaction_line(line) ELSE None, LAMBDA transaction :
                 (IF transaction # None THEN <<transaction>> ELSE <<>>)
                     \o parse_lines_app(Tail(ls)))))

\* _process_transaction_text
process_transaction_text(text) ==
    With(text, LAMBDA t : extract_from_continuous_text(t) \o parse_lines_app(split_lines(t)))

-----------------------------------------------------------------------------
(* Table rows.  A table is a sequence of rows, a row a sequence of cells;  *)
(* a cell that pdfplumber gives as None is the empty string here (both     *)
(* become '' in clean_row).                                                *)

\* ' '.join(clean_row)
RECURSIVE join_cells(_)
join_cells(row) ==
    With(row, LAMBDA r :
        IF r = <<>> THEN ""
        ELSE IF Len(r) = 1 THEN r[1]
        ELSE r[1] \o " " \o join_cells(Tail(r)))

clean_cells(row) == With(row, LAMBDA r : [i \in 1..Len(r) |-> strip(r[i])])

\* balance = amounts[-1] if amounts else ''; amount = +-amounts[-2] if len(amounts) >= 2
row_record(v, date, description, amounts) ==
    With(description, LAMBDA desc :
    With(amounts, LAMBDA am :
        Txn(date, strip(desc),
            IF Len(am) >= 2
            THEN signed_amount(v, desc, no_commas(am[Len(am) - 1]))
            ELSE "",
            IF am # <<>> THEN no_commas(am[Len(am)]) ELSE "")))

\* app.py: the loop over the cells of _parse_table_row: [description, amounts]
RECURSIVE row_cells_app(_, _, _, _)
row_cells_app(clean_row, i, date_cell_index, acc) ==
    With(acc, LAMBDA a :
        IF i > Len(clean_row) THEN a
        ELSE
        With(clean_row[i], LAMBDA cell_str :
            IF i = date_cell_index \/ cell_str = "" \/ cell_str = "None"
            THEN row_cells_app(clean_row, i + 1, date_cell_index, a)
            ELSE
            With(findall(cell_str, LooseNumber), LAMBDA cell_numbers :
            With(JoinWords(blank_punctuation(
                     remove_numbers(cell_str, cell_numbers), TRUE)), LAMBDA desc_text :
            With(/\ desc_text # "" /\ Len(desc_text) > 3 /\ ~AllDigits(desc_text)
                 /\ Len(desc_text) > Len(a.description), LAMBDA takes :
                row_cells_app(clean_row, i + 1, date_cell_index,
                    [description |-> IF takes THEN desc_text ELSE a.description,
                     amounts |-> a.amounts \o cell_numbers]))))))

\* app.py _parse_table_row
parse_table_row_app(row) ==
    With(clean_cells(row), LAMBDA clean_row :
    With({i \in 1..Len(clean_row) : has_date(clean_row[i], FALSE)}, LAMBDA dated :
        IF dated = {} THEN None
        ELSE IF AnyIn(line_skip_phrases, lower(join_cells(clean_row))) THEN None
        ELSE
        With(MinOf(dated), LAMBDA date_cell_index :
        With(row_cells_app(clean_row, 1, date_cell_index,
                           [description |-> "", amounts |-> <<>>]), LAMBDA acc :
            IF acc.description = "" /\ acc.amounts = <<>> THEN None
            ELSE row_record("app",
                            normalize_date(date_group(clean_row[date_cell_index], FALSE)),
                            IF acc.description = "" THEN "Transaction" ELSE acc.description,
                            acc.amounts)))))

v2_skip_phrases == {"statement period", "total pages"}

\* app-v2.py: the loop over the cells of _parse_table_row: [description, amounts]
RECURSIVE row_cells_v2(_, _, _)
row_cells_v2(clean_row, i, acc) ==
    With(acc, LAMBDA a :
        IF i > Len(clean_row) THEN a
        ELSE
        With(clean_row[i], LAMBDA cell :
            IF has_date(cell, TRUE) THEN row_cells_v2(clean_row, i + 1, a)
            ELSE
            With(findall(cell, LooseNumber), LAMBDA cell_numbers :
            With(IF cell_numbers # <<>>
                 THEN JoinWords(blank_punctuation(
                          remove_numbers(cell, cell_numbers), FALSE))
                 ELSE JoinWords(blank_punctuation(cell, TRUE)), LAMBDA desc_part :
                row_cells_v2(clean_row, i + 1,
                    [description |-> IF Len(desc_part) > Len(a.description)
                                     THEN desc_part ELSE a.description,
                     amounts |-> a.amounts \o cell_numbers])))))

\* app-v2.py _parse_table_row
parse_table_row_v2(row) ==
    With(clean_cells(row), LAMBDA clean_row :
    With({i \in 1..Len(clean_row) : has_date(clean_row[i], TRUE)}, LAMBDA dated :
        IF dated = {} THEN None
        ELSE IF AnyIn(v2_skip_phrases, lower(join_cells(clean_row))) THEN None
        ELSE
        With(row_cells_v2(clean_row, 1, [description |-> "", amounts |-> <<>>]), LAMBDA acc :
            IF acc.description = "" \/ acc.amounts = <<>> THEN None
            ELSE row_record("v2", normalize_date(date_group(clean_row[MinOf(dated)], TRUE)),
                            acc.description, acc.amounts))))

parse_table_row(v, row) == IF v = "app" THEN parse_table_row_app(row) ELSE parse_table_row_v2(row)

header_keywords(v) == IF v = "app" THEN {"date", "tran list", "description"} ELSE {"date"}

\* 'opening balance' in txn['description'].lower()
is_opening(txn) == Contains(lower(txn.description), "opening balance")

NotOpening(txn) == ~is_opening(txn)

\* the data rows of one table: those behind the header row that are not empty
RECURSIVE parse_rows(_, _)
parse_rows(v, rows) ==
    With(rows, LAMBDA rs :
        IF rs = <<>> THEN <<>>
        ELSE
        With(Head(rs), LAMBDA row :
        With(IF \E i \in 1..Len(row) : row[i] # ""
             THEN parse_table_row(v, row) ELSE None, LAMBDA transaction :
            (IF transaction # None /\ (v = "v2" => ~is_opening(transaction))
             THEN <<transaction>> ELSE <<>>) \o parse_rows(v, Tail(rs)))))

\* _process_tables
RECURSIVE process_tables(_, _)
process_tables(v, tables) ==
    With(tables, LAMBDA ts :
        IF ts = <<>> THEN <<>>
        ELSE
        With(Head(ts), LAMBDA table :
        With({i \in 1..Len(table) :
                 \E c \in 1..Len(table[i]) :
                     AnyIn(header_keywords(v), lower(table[i][c]))}, LAMBDA headers :
            (IF Len(table) < 2 \/ headers = {} THEN <<>>
             ELSE parse_rows(v, SubSeq(table, MinOf(headers) + 1, Len(table))))
                \o process_tables(v, Tail(ts)))))

-----------------------------------------------------------------------------
(* app-v2.py: the text path and the explicit opening balance.              *)

\* re.sub(r'^\d{6}\s*', '', remainder)
drop_leading_code(remainder) ==
    With(remainder, LAMBDA r : IF DigitsAt(r, 1, 6) THEN lstrip(Suffix(r, 6)) ELSE r)

\* _parse_text_line
parse_text_line(line) ==
    With(line, LAMBDA ln :
    With(date_search(ln, TRUE), LAMBDA m :
        IF m.start = 0 THEN None
        ELSE IF AnyIn(v2_skip_phrases, lower(ln)) THEN None
        ELSE
        With(SubSeq(ln, m.start, m.start + m.len - 1), LAMBDA raw :
        With(drop_leading_code(strip(replace(ln, raw, ""))), LAMBDA remainder :
        With(findall(remainder, LooseNumber), LAMBDA numbers :
        With(JoinWords(blank_punctuation(remove_numbers(remainder, numbers), TRUE)),
             LAMBDA description :
            IF description = "" \/ numbers = <<>> THEN None
            ELSE row_record("v2", normalize_date(raw), description, numbers)))))))

section_keywords == {"transaction", "date", "description", "balance"}

\* the loop of _process_text
RECURSIVE process_text_from(_, _)
process_text_from(lines, in_transaction_section) ==
    With(lines, LAMBDA ls :
    With(in_transaction_section, LAMBDA in_section :
        IF ls = <<>> THEN <<>>
        ELSE
        With(strip(Head(ls)), LAMBDA line :
        With(lower(line), LAMBDA line_lower :
            IF line = "" THEN process_text_from(Tail(ls), in_section)
            ELSE IF AnyIn(section_keywords, line_lower)
                 THEN process_text_from(Tail(ls), TRUE)
            ELSE IF Contains(line_lower, "closing balance") \/ ~in_section
                      \/ Contains(line_lower, "opening balance")
                 THEN process_text_from(Tail(ls), in_section)
            ELSE With(IF has_date(line, TRUE) THEN parse_text_line(line) ELSE None,
                      LAMBDA transaction :
                     (IF transaction # None /\ ~is_opening(transaction)
                      THEN <<transaction>> ELSE <<>>)
                         \o process_text_from(Tail(ls), in_section))))))

\* _process_text
process_text(text) == process_text_from(split_lines(text), FALSE)

\* the value a number must exceed to be taken as the opening balance
NoiseFloor == 100

\* if num_value > 100
over_noise_floor(num) ==
    \E x \in {ParseFloat(no_commas(num))} :
        x.u > NoiseFloor \/ (x.u = NoiseFloor /\ x.f > 0)

\* how many lines before and after the 'opening balance' line are searched
WindowLines == 3

\* the search of lines j..search_end for a date and a balance: [date, balance]
RECURSIVE opening_window(_, _, _, _)
opening_window(lines, j, search_end, found) ==
    With(found, LAMBDA fd :
        IF j > search_end THEN fd
        ELSE
        With(strip(lines[j]), LAMBDA search_line :
        With(IF fd.date = "" /\ has_date(search_line, TRUE)
             THEN normalize_date(date_group(search_line, TRUE))
             ELSE fd.date, LAMBDA date :
        With(SelectSeq(findall(search_line, OpeningNumber), over_noise_floor), LAMBDA big :
        With(IF big # <<>> THEN Head(big) ELSE fd.balance, LAMBDA balance :
            IF date # "" /\ balance # "" THEN [date |-> date, balance |-> balance]
            ELSE opening_window(lines, j + 1, search_end,
                                [date |-> date, balance |-> balance]))))))

\* the loop of _find_opening_balance_in_text over the lines from i on
RECURSIVE find_opening_from(_, _)
find_opening_from(lines, i) ==
    IF i > Len(lines) THEN None
    ELSE IF /\ strip(lines[i]) # ""
            /\ Contains(lower(strip(lines[i])), "opening balance")
    THEN With(opening_window(lines, Max(1, i - WindowLines),
                             Min(Len(lines), i + WindowLines),
                             [date |-> "", balance |-> ""]), LAMBDA found :
             IF found.date # "" /\ found.balance # ""
             THEN Txn(found.date, "Opening balance", "", no_commas(found.balance))
             ELSE find_opening_from(lines, i + 1))
    ELSE find_opening_from(lines, i + 1)

\* _find_opening_balance_in_text
find_opening_balance_in_text(text) ==
    With(split_lines(text), LAMBDA lines : find_opening_from(lines, 1))

-----------------------------------------------------------------------------
(* One page of extract_transactions_from_pdf.  A page is [text, tables,    *)
(* ocr]: what the text extraction, the table extraction and the OCR of the *)
(* page give (ocr is "" when OCR is not available or reads nothing).       *)

Page(text, tables, ocr) == [text |-> text, tables |-> tables, ocr |-> ocr]

banking_keywords ==
    {"transaction", "balance", "date", "account", "nedbank", "batch", "dep", "herd",
     "current", "tran list"}

\* the least lengths of a page's text and of its OCR text
MeaningfulLen == 50

OcrLen == 100

has_meaningful_text(text) ==
    \E t \in {text} :
        /\ t # "" /\ Len(strip(t)) > MeaningfulLen
        /\ AnyIn(banking_keywords, lower(t))

\* the lines of the OCR text that hold a date, parsed once more
RECURSIVE parse_ocr_lines(_)
parse_ocr_lines(lines) ==
    With(lines, LAMBDA ls :
        IF ls = <<>> THEN <<>>
        ELSE With(IF has_date(Head(ls), FALSE)
                  THEN parse_transaction_line(Head(ls)) ELSE None, LAMBDA transaction :
                 (IF transaction # None THEN <<transaction>> ELSE <<>>)
                     \o parse_ocr_lines(Tail(ls))))

\* app.py: the body of the loop over the pages
page_transactions_app(page) ==
    With(page, LAMBDA pg :
        IF has_meaningful_text(pg.text)
        THEN process_transaction_text(pg.text) \o process_tables("app", pg.tables)
        ELSE IF pg.ocr # "" /\ Len(strip(pg.ocr)) > OcrLen
        THEN process_transaction_text(pg.ocr) \o parse_ocr_lines(split_lines(pg.ocr))
        ELSE <<>>)

\* [t for t in page_transactions if 'opening balance' not in t['description'].lower()]
opening_filter(txns) == SelectSeq(txns, NotOpening)

\* app-v2.py: the body of the loop over the pages
page_transactions_v2(page) ==
    With(page, LAMBDA pg :
        IF pg.text = "" THEN <<>>
        ELSE With(find_opening_balance_in_text(pg.text), LAMBDA opening_balance :
                 (IF opening_balance # None THEN <<opening_balance>> ELSE <<>>)
                     \o opening_filter(process_tables("v2", pg.tables))
                     \o opening_filter(process_text(pg.text))))

page_transactions(v, page) ==
    IF v = "app" THEN page_transactions_app(page) ELSE page_transactions_v2(page)

-----------------------------------------------------------------------------
(* The Deduplicator & Sequencer: _clean_and_format_transactions.           *)

Variants == {"app", "v2"}

\* the description prefix length of the deduplication key
KeyPrefixLen == 20

dedup_key_whole_description(txn) ==
    With(txn, LAMBDA t : t.date \o "_" \o t.description \o "_" \o t.balance)

\* key = f"{txn['date']}_{txn['description'][:20]}_{txn['balance']}"
dedup_key(txn) ==
    With(txn, LAMBDA t :
        t.date \o "_" \o Prefix(t.description, KeyPrefixLen) \o "_" \o t.balance)

clean_skip_phrases == {"statement period", "total pages", "statementperiod", "totalpages"}

\* app.py filters "statement period" rows again in the final pass; app-v2.py does not
clean_skips(v, txn) == v = "app" /\ AnyIn(clean_skip_phrases, lower(txn.description))

accepts_no_empty_check(seen, txn) == dedup_key(txn) \notin seen

\* if key not in seen and txn['date'] and txn['description']
accepts(seen, txn) ==
    dedup_key(txn) \notin seen /\ txn.date # "" /\ txn.description # ""

seen_add_forgotten(seen, key) == seen

\* seen.add(key)
seen_add(seen, key) == seen \cup {key}

\* the loop over the transactions: seen holds the keys of the records kept so
\* far, acc the records kept so far
RECURSIVE dedup_loop(_, _, _, _)
dedup_loop(v, txns, seen, acc) ==
    With(<<txns, seen, acc>>, LAMBDA st :
        IF st[1] = <<>> THEN st[3]
        ELSE IF ~clean_skips(v, Head(st[1])) /\ accepts(st[2], Head(st[1]))
             THEN dedup_loop(v, Tail(st[1]), seen_add(st[2], dedup_key(Head(st[1]))),
                             Append(st[3], Head(st[1])))
             ELSE dedup_loop(v, Tail(st[1]), st[2], st[3]))

\* a loop that keeps the last record of each key
unique_transactions_last(v, txns) ==
    With(txns, LAMBDA ts :
    With(dedup_loop(v, [i \in 1..Len(ts) |-> ts[Len(ts) + 1 - i]], {}, <<>>), LAMBDA kept :
        [i \in 1..Len(kept) |-> kept[Len(kept) + 1 - i]]))

\* the loop over transactions: the records kept, in input order
unique_transactions(v, txns) == dedup_loop(v, txns, {}, <<>>)

\* list.sort is stable: t goes behind every element whose key is <= its own
RECURSIVE insert_by_date(_, _)
insert_by_date(sorted, t) ==
    With(sorted, LAMBDA sd :
        IF sd = <<>> THEN <<t>>
        ELSE IF strptime(Head(sd).date).key <= strptime(t.date).key
             THEN <<Head(sd)>> \o insert_by_date(Tail(sd), t)
             ELSE <<t>> \o sd)

RECURSIVE stable_sort(_)
stable_sort(l) ==
    With(l, LAMBDA ls :
        IF ls = <<>> THEN <<>>
        ELSE insert_by_date(stable_sort(SubSeq(ls, 1, Len(ls) - 1)), ls[Len(ls)]))

sort_by_date_unsorted(l) == l

\* the sort, were a date that does not parse given the least key
sort_by_date_forced(l) == stable_sort(l)

\* try: unique_transactions.sort(key=strptime(date)) except: pass
\* (the keys are all computed before the list is touched: a date that does
\* not parse leaves the list as it was)
sort_by_date(l) ==
    With(l, LAMBDA ls :
        IF \A i \in 1..Len(ls) : strptime(ls[i].date).ok THEN stable_sort(ls) ELSE ls)

\* first_balance = float(first_txn['balance'].replace(',', ''))
first_balance(first_txn) == ParseFloat(replace(first_txn.balance, ",", ""))

\* first_amount = float(first_txn['amount'].replace(',', '')) if first_txn['amount'] else 0
first_amount(first_txn) ==
    With(first_txn, LAMBDA first :
        IF first.amount # "" THEN ParseFloat(replace(first.amount, ",", "")) ELSE Zero)

with_inferred_opening_adds(unique) ==
    With(unique, LAMBDA un :
        IF (\E i \in 1..Len(un) : is_opening(un[i])) \/ un = <<>> THEN un
        ELSE With(first_balance(un[1]), LAMBDA fb :
             With(first_amount(un[1]), LAMBDA fa :
                 IF fb.ok /\ fa.ok /\ Positive(Plus(fb, fa))
                 THEN <<Txn(un[1].date, "Opening balance", "", Format2(Plus(fb, fa)))>> \o un
                 ELSE un)))

with_inferred_opening_unchecked(unique) ==
    With(unique, LAMBDA un :
        IF un = <<>> THEN un
        ELSE With(first_balance(un[1]), LAMBDA fb :
             With(first_amount(un[1]), LAMBDA fa :
                 IF fb.ok /\ fa.ok /\ Positive(Minus(fb, fa))
                 THEN <<Txn(un[1].date, "Opening balance", "", Format2(Minus(fb, fa)))>> \o un
                 ELSE un)))

\* app-v2.py: if no record is an opening balance, calculate one from the first
with_inferred_opening(unique) ==
    With(unique, LAMBDA un :
        IF (\E i \in 1..Len(un) : is_opening(un[i])) \/ un = <<>> THEN un
        ELSE With(first_balance(un[1]), LAMBDA fb :
             With(first_amount(un[1]), LAMBDA fa :
                 IF fb.ok /\ fa.ok /\ Positive(Minus(fb, fa))
                 THEN <<Txn(un[1].date, "Opening balance", "", Format2(Minus(fb, fa)))>> \o un
                 ELSE un)))

\* app-v2.py: the first opening balance goes first, the other ones are dropped
opening_first(l) ==
    With(l, LAMBDA ls :
    With({i \in 1..Len(ls) : is_opening(ls[i])}, LAMBDA idx :
        (IF idx = {} THEN <<>> ELSE <<ls[MinOf(idx)]>>) \o SelectSeq(ls, NotOpening)))

clean_and_format_transactions(v, txns) ==
    With(sort_by_date(unique_transactions(v, txns)), LAMBDA sorted :
        IF v = "app" THEN sorted
        ELSE opening_first(with_inferred_opening(sorted)))

-----------------------------------------------------------------------------
(* Record lists handed to _clean_and_format_transactions directly.         *)

RecordPool ==
    { Txn("01/01/2023", "Deposit", "200.00", "1000.00"),
      Txn("03/01/2023", "Opening balance", "", "500.00"),
      Txn("45/13/2023", "OPENING BALANCE b-f", "", "600.00"),
      Txn("45/13/2023", "Refund", "20.00", "620.00"),
      Txn("", "Fee", "-1.00", "5.00"),
      Txn("02/01/2023", "", "", "5.00"),
      Txn("02/01/2023", "Transfer in from savings A", "10.00", "310.00"),
      Txn("02/01/2023", "Transfer in from savings B", "-45.50", "310.00"),
      Txn("31/12/2022", "PnP Norwood", "-45.50", "1,004.48"),
      Txn("02/01/2023", "Transfer in from savings statement period", "", "310.00") }

BoundedSeq(S, n) == UNION {[1..k -> S] : k \in 0..n}

-----------------------------------------------------------------------------
(* The pages a statement is drawn from.                                    *)

Header == "Date Description Amount Balance"

\* an explicit opening balance and a purchase
PageOpening ==
    Page(Header \o "\nOpening balance 1,500.00 01/01/2023"
                \o "\n02/01/2023 PnP Norwood 45.50 1,454.50", <<>>, "")

\* an explicit opening balance whose date is no calendar date, and a deposit
PageBadOpening ==
    Page(Header \o "\nOpening balance 2,000.00 45/13/2023"
                \o "\n01/01/2023 Deposit 200.00 1,700.00", <<>>, "")

\* lines that differ in trailing whitespace, and lines that differ in letter
\* case behind the first 20 characters of the description
PageDuplicates ==
    Page(Header \o "\n31/12/2022 PnP Norwood 45.50 1,004.48  "
                \o "\n31/12/2022 PnP Norwood 45.50 1,004.48"
                \o "\n02/01/2023 Transfer in from savings account 25.00 310.00"
                \o "\n02/01/2023 Transfer in from savings ACCOUNT 25.00 310.00", <<>>, "")

\* a cover page: its only dated line is boilerplate, the phrase before the date
PageSkip ==
    Page("Nedbank current account statement - page 1 of 3"
             \o "\nBalance brought forward 01/01/2023 1,000.00", <<>>, "")

\* a zero amount in the text and in a table, and a boilerplate line
PageZero ==
    Page(Header \o "\n05/03/2023 Deposit 0.00 1,004.48"
                \o "\nStatement period 05/03/2023 to 31/03/2023",
         << << <<"Date", "Description", "Amount", "Balance">>,
               <<"05/03/2023", "PnP Norwood", "0.00", "1,004.48">>,
               <<"", "", "", "">>,
               <<"06/03/2023", "Salary March", "5,000.00", "6,004.48">> >> >>, "")

\* a scanned page: no text layer, read by OCR
PageScanned ==
    Page("", <<>>,
         Header \o "\n03/01/2023 Salary 5,000.00 6,454.50"
                \o "\n04/01/2023 ATM withdrawal 12.50 500.00 5,954.50"
                \o "\n04/01/2023 Herd2 - 1213779758 100.00 6,054.50")

PageInputs == {PageOpening, PageBadOpening, PageDuplicates, PageSkip, PageZero, PageScanned}

\* what each variant reads from each page
ParsedPages == [v \in Variants, page \in PageInputs |-> page_transactions(v, page)]

-----------------------------------------------------------------------------
(* The parser object, and the lines handed to one parser at a time.        *)

debit_keywords ==
    {"fee", "service", "maintenance", "charge", "interest", "pnp", "vodacom", "mtn",
     "savoy liquors", "soccer", "flm norwood", "current ac", "yoco", "centracom",
     "ankerdata", "jpc", "instant payment", "disputed debit", "builders exp",
     "checkers", "vets pantry", "montrose plumbing", "discovery life", "absa bond",
     "sandringham vet", "woolworths", "dis-chem", "multichoice", "atm", "withdrawal",
     "debit order"}

\* BankStatementParser.__init__: the attributes of a new parser
new_parser(v) == [credit_keywords |-> credit_keywords(v), debit_keywords |-> debit_keywords]

\* a line of a statement: its date, its description, its numeric tokens
Entry(date, description, tokens) ==
    [date |-> date, description |-> description, tokens |-> tokens]

\* no single line is being parsed
NoEntryInput == entry = Entry("", "", <<>>) /\ path = ""

\* no call is under way on the shared parser
NoSharedCalls == parser = new_parser(variant) /\ calls = <<>>

-----------------------------------------------------------------------------
(* The state machine: extract_transactions_from_pdf.  pages is the         *)
(* document, pageNo the number of pages read so far; pc is "pages" while   *)
(* the loop over the pages runs, "done" once the cleaned list is returned, *)
(* "rerun" once the cleaned list has been cleaned a second time.           *)

\* the loop over pdf.pages, were each page's records cleaned as they are read
ProcessPageCleaned ==
    /\ pc = "pages"
    /\ pageNo < Len(pages)
    /\ pageNo' = pageNo + 1
    /\ transactions' = transactions
           \o clean_and_format_transactions(variant, ParsedPages[variant, pages[pageNo + 1]])
    /\ UNCHANGED <<variant, pages, pc, output, again, entryVars, sharedVars>>

\* one turn of the loop over pdf.pages
ProcessPage ==
    /\ pc = "pages"
    /\ pageNo < Len(pages)
    /\ pageNo' = pageNo + 1
    /\ transactions' = transactions \o ParsedPages[variant, pages[pageNo + 1]]
    /\ UNCHANGED <<variant, pages, pc, output, again, entryVars, sharedVars>>

\* return self._clean_and_format_transactions(transactions)
Finish ==
    /\ pc = "pages"
    /\ pageNo = Len(pages)
    /\ output' = clean_and_format_transactions(variant, transactions)
    /\ pc' = "done"
    /\ UNCHANGED <<variant, pages, pageNo, transactions, again, entryVars, sharedVars>>

\* the Deduplicator & Sequencer applied to its own output
Rerun ==
    /\ pc = "done"
    /\ again' = clean_and_format_transactions(variant, output)
    /\ pc' = "rerun"
    /\ UNCHANGED <<variant, pages, pageNo, transactions, output, entryVars, sharedVars>>

\* a document of up to MaxPages pages goes through one of the two variants
Init ==
    /\ variant \in Variants
    /\ pages \in BoundedSeq(PageInputs, MaxPages)
    /\ pc = "pages"
    /\ pageNo = 0
    /\ transactions = <<>>
    /\ output = <<>>
    /\ again = <<>>
    /\ NoEntryInput
    /\ NoSharedCalls

Next == ProcessPage \/ Finish \/ Rerun

Spec == Init /\ [][Next]_vars

\* _clean_and_format_transactions alone, on any list of up to MaxLen records
InitClean ==
    /\ variant \in Variants
    /\ pages = <<>>
    /\ pc = "pages"
    /\ pageNo = 0
    /\ transactions \in BoundedSeq(RecordPool, MaxLen)
    /\ output = <<>>
    /\ again = <<>>
    /\ NoEntryInput
    /\ NoSharedCalls

NextClean == Finish \/ Rerun

SpecClean == InitClean /\ [][NextClean]_vars

-----------------------------------------------------------------------------
(* One line of a statement, handed to one of the parsers: as a line of     *)
(* page text, as a table row with the date, the description and each       *)
(* token in a cell of its own, or as the line that announces the opening   *)
(* balance.  What the parser gives then goes through                       *)
(* _clean_and_format_transactions as a statement of that one line.         *)

\* the most numeric tokens on a line
MaxTokens == 3

\* a large amount, a small amount, an amount under the materiality threshold,
\* an amount without decimals
TokenPool == {"500.00", "45.50", "0.50", "1700"}

\* a padded date and a date with a one-digit day and month
EntryDates == {"21/01/2023", "1/2/2023"}

ScenarioA == Entry("21/01/2023", "Herd2 - 1213779758", <<"2,000.00", "4,549.98">>)

\* a token above, and a token below, the range of the numeric tokens of
\* _parse_transaction_line
LargeTokenEntry == Entry("21/01/2023", "ATM withdrawal", <<"45.50", "1,234,567,890.00">>)

ZeroTokenEntry == Entry("21/01/2023", "ATM withdrawal", <<"45.50", "0.00">>)

\* the line of an explicit opening balance
OpeningEntry == Entry("01/01/2023", "Opening balance", <<"5,000.00">>)

EntryInputs ==
    {ScenarioA, LargeTokenEntry, ZeroTokenEntry, OpeningEntry}
        \cup {Entry(d, "ATM withdrawal", t) :
                 d \in EntryDates, t \in BoundedSeq(TokenPool, MaxTokens)}

\* the line as page text
entry_text(e) == join_cells(<<e.date, e.description>> \o e.tokens)

\* what the parser of variant v on path p makes of the line: a record or None.
\* The line is page text on path "text", a table row of cells on path "table",
\* and the line that announces the opening balance on path "opening".
parse_entry(v, p, e) ==
    IF p = "text"
    THEN (IF v = "app" THEN parse_transaction_line(entry_text(e))
          ELSE parse_text_line(entry_text(e)))
    ELSE IF p = "table" THEN parse_table_row(v, <<e.date, e.description>> \o e.tokens)
    ELSE IF v = "v2"
         THEN find_opening_balance_in_text(
                  join_cells(<<e.date, "Opening balance">> \o e.tokens))
    ELSE None

\* the record list a parser's result makes
found(r) == IF r = None THEN <<>> ELSE <<r>>

\* _parse_transaction_line (app.py), _parse_text_line (app-v2.py)
ParseLine ==
    /\ pc = "line"
    /\ path' = "text"
    /\ transactions' = found(parse_entry(variant, "text", entry))
    /\ pc' = "pages"
    /\ UNCHANGED <<variant, pages, pageNo, output, again, entry, sharedVars>>

\* _parse_table_row
ParseRow ==
    /\ pc = "line"
    /\ path' = "table"
    /\ transactions' = found(parse_entry(variant, "table", entry))
    /\ pc' = "pages"
    /\ UNCHANGED <<variant, pages, pageNo, output, again, entry, sharedVars>>

\* _find_opening_balance_in_text (app-v2.py)
FindOpening ==
    /\ pc = "line"
    /\ variant = "v2"
    /\ path' = "opening"
    /\ transactions' = found(parse_entry(variant, "opening", entry))
    /\ pc' = "pages"
    /\ UNCHANGED <<variant, pages, pageNo, output, again, entry, sharedVars>>

InitLine ==
    /\ variant \in Variants
    /\ pages = <<>>
    /\ pc = "line"
    /\ pageNo = 0
    /\ transactions = <<>>
    /\ output = <<>>
    /\ again = <<>>
    /\ entry \in EntryInputs
    /\ path = ""
    /\ NoSharedCalls

NextLine == ParseLine \/ ParseRow \/ FindOpening \/ Finish

SpecLine == InitLine /\ [][NextLine]_vars

-----------------------------------------------------------------------------
(* Two calls of extract_transactions_from_pdf on the parser that           *)
(* get_parser shares, each on its own pdf, their steps interleaved.  A     *)
(* call's list of transactions, its place in its pdf and its result are    *)
(* local variables of the call; the parser's attributes are read by        *)
(* _is_credit.                                                             *)

\* the most pages of the pdf of such a call
MaxCallPages == 1

Callers == {1, 2}

\* the pdfs of the two calls and the pages they are made of
CallDocs == BoundedSeq({PageOpening, PageDuplicates, PageScanned}, MaxCallPages)

\* transactions = [] at the start of a call on pdf_file
new_call(doc) ==
    [pages |-> doc, pageNo |-> 0, transactions |-> <<>>, pc |-> "pages", output |-> <<>>]

\* the sign _is_credit, reading self.credit_keywords, gives the amount of a record
signed_by(p, txn) ==
    With(txn, LAMBDA t :
        IF t.amount = "" THEN t
        ELSE With(IF Head(t.amount) = "-" THEN Tail(t.amount) ELSE t.amount,
                  LAMBDA transaction_amount :
                 [t EXCEPT !.amount = IF AnyIn(p.credit_keywords, lower(t.description))
                                      THEN transaction_amount
                                      ELSE "-" \o transaction_amount]))

\* the records of a page, their amounts signed by the parser as it is now
page_records_by(p, v, page) ==
    With(ParsedPages[v, page], LAMBDA recs : [i \in 1..Len(recs) |-> signed_by(p, recs[i])])

\* a parse call that adds a keyword to the parser it runs on
parser_after_page_written(p) ==
    [p EXCEPT !.credit_keywords = @ \cup {"atm"}]

\* what a turn of the page loop leaves of the parser: no attribute is assigned
parser_after_page(p) == p

\* one turn of the loop over pdf.pages, in one of the calls
CallProcessPage ==
    \E c \in Callers :
        /\ pc = "calls"
        /\ calls[c].pc = "pages"
        /\ calls[c].pageNo < Len(calls[c].pages)
        /\ calls' = [calls EXCEPT
                        ![c].pageNo = @ + 1,
                        ![c].transactions =
                            @ \o page_records_by(parser, variant,
                                                 calls[c].pages[calls[c].pageNo + 1])]
        /\ parser' = parser_after_page(parser)
        /\ UNCHANGED <<variant, pages, pc, pageNo, transactions, output, again, entryVars>>

\* return self._clean_and_format_transactions(transactions), in one of the calls
CallFinish ==
    \E c \in Callers :
        /\ pc = "calls"
        /\ calls[c].pc = "pages"
        /\ calls[c].pageNo = Len(calls[c].pages)
        /\ calls' = [calls EXCEPT
                        ![c].pc = "done",
                        ![c].output =
                            clean_and_format_transactions(variant, calls[c].transactions)]
        /\ UNCHANGED <<variant, pages, pc, pageNo, transactions, output, again,
                       entryVars, parser>>

InitShared ==
    /\ variant \in Variants
    /\ pages = <<>>
    /\ pc = "calls"
    /\ pageNo = 0
    /\ transactions = <<>>
    /\ output = <<>>
    /\ again = <<>>
    /\ NoEntryInput
    /\ parser = new_parser(variant)
    /\ calls \in [Callers -> {new_call(doc) : doc \in CallDocs}]

NextShared == CallProcessPage \/ CallFinish

SpecShared == InitShared /\ [][NextShared]_vars

-----------------------------------------------------------------------------
(* The text of one page handed to the line-based path: a header and some   *)
(* lines, of which some carry a date and some do not.                      *)

\* the most lines of such a text behind its header
MaxLines == 3

DatedLines ==
    {"04/01/2023 ATM withdrawal 500.00 5,954.50",
     "05/01/2023 Herd2 deposit 100.00 6,054.50"}

\* a line without a date, as the second line of a description is
ContinuationLine == "Norwood branch"

\* '\n'.join(lines)
RECURSIVE join_lines(_)
join_lines(lines) ==
    With(lines, LAMBDA ls :
        IF ls = <<>> THEN ""
        ELSE IF Len(ls) = 1 THEN ls[1]
        ELSE ls[1] \o "\n" \o join_lines(Tail(ls)))

TextInputs ==
    {join_lines(<<Header>> \o lines) :
        lines \in BoundedSeq(DatedLines \cup {ContinuationLine, ""}, MaxLines)}

\* _process_transaction_text / _process_text on the text of the page
ProcessText ==
    /\ pc = "text"
    /\ transactions' = IF variant = "app" THEN process_transaction_text(pages[1].text)
                       ELSE process_text(pages[1].text)
    /\ pageNo' = 1
    /\ pc' = "pages"
    /\ UNCHANGED <<variant, pages, output, again, entryVars, sharedVars>>

InitText ==
    /\ variant \in Variants
    /\ pages \in {<<Page(text, <<>>, "")>> : text \in TextInputs}
    /\ pc = "text"
    /\ pageNo = 0
    /\ transactions = <<>>
    /\ output = <<>>
    /\ again = <<>>
    /\ NoEntryInput
    /\ NoSharedCalls

NextText == ProcessText \/ Finish

SpecText == InitText /\ [][NextText]_vars

-----------------------------------------------------------------------------
(* Claims about the Deduplicator & Sequencer.                              *)

Returned == pc \in {"done", "rerun"}

\* date[i] <= date[j] as calendar dates
DateLeq(a, b) == strptime(a).ok /\ strptime(b).ok /\ strptime(a).key <= strptime(b).key

SameKey(t, u) ==
    /\ t.date = u.date
    /\ Prefix(t.description, KeyPrefixLen) = Prefix(u.description, KeyPrefixLen)
    /\ t.balance = u.balance

\* every input record that can survive deduplication has a date that parses
InputDatesParse ==
    \A k \in 1..Len(transactions) :
        (transactions[k].date # "" /\ transactions[k].description # "")
            => strptime(transactions[k].date).ok

\* C1 as stated: for every input list the output is non-decreasing by calendar
\* date, an opening-balance record at index 0 excepted (two dates of which one
\* is no calendar date are not compared).
C1_OrderedAlways ==
    Returned =>
        \A i, j \in 1..Len(output) :
            (i < j /\ strptime(output[i].date).ok /\ strptime(output[j].date).ok)
                => \/ (i = 1 /\ is_opening(output[1]))
                   \/ DateLeq(output[i].date, output[j].date)

\* C1 amended: provided every input record with a non-empty date and description
\* has a date that parses as a calendar date, the output is non-decreasing by
\* calendar date, an opening-balance record at index 0 excepted.
C1_OrderedWhenDatesParse ==
    (Returned /\ InputDatesParse) =>
        \A i, j \in 1..Len(output) :
            i < j => \/ (i = 1 /\ is_opening(output[1]))
                     \/ DateLeq(output[i].date, output[j].date)

\* the sort moved a record: the input held a later date before an earlier one
C1_Witness ==
    /\ pc = "done" /\ InputDatesParse
    /\ Len(output) >= 2 /\ ~is_opening(output[1])
    /\ \E i, j \in 1..Len(transactions) :
          /\ i < j
          /\ transactions[i].description # "" /\ transactions[j].description # ""
          /\ strptime(transactions[i].date).ok /\ strptime(transactions[j].date).ok
          /\ strptime(transactions[i].date).key > strptime(transactions[j].date).key

C6_NonEmptyDateAndDescription ==
    Returned =>
        \A i \in 1..Len(output) : output[i].date # "" /\ output[i].description # ""

\* records with an empty date and with an empty description went in, and the
\* output, which starts with a synthesized opening balance, holds neither
C6_Witness ==
    /\ pc = "done" /\ variant = "v2"
    /\ \E k \in 1..Len(transactions) : transactions[k].date = ""
    /\ \E k \in 1..Len(transactions) : transactions[k].description = ""
    /\ Len(output) = 2
    /\ output[1].description = "Opening balance"
    /\ \A k \in 1..Len(transactions) : transactions[k] # output[1]

\* C7 (app-v2.py): when no deduplicated record is an opening balance and the
\* first record of the sorted list has balance b and amount a (0 when absent),
\* then with b - a > 0 the output is the sorted list behind one record
\* {first date, 'Opening balance', no amount, b - a with 2 decimals} (1000.00 and
\* 200.00 give '800.00'), and with b - a <= 0 the output is the sorted list.
C7_InferredOpening ==
    (Returned /\ variant = "v2") =>
        \A sorted \in {sort_by_date(unique_transactions("v2", transactions))} :
            ( /\ sorted # <<>>
              /\ \A i \in 1..Len(sorted) : ~is_opening(sorted[i]) )
            => \A b \in {ParseFloat(replace(sorted[1].balance, ",", ""))},
                  a \in {IF sorted[1].amount = "" THEN Zero
                         ELSE ParseFloat(replace(sorted[1].amount, ",", ""))} :
                   (b.ok /\ a.ok)
                   => IF Positive(Minus(b, a))
                      THEN /\ Len(output) = Len(sorted) + 1
                           /\ Tail(output) = sorted
                           /\ output[1].description = "Opening balance"
                           /\ output[1].amount = ""
                           /\ output[1].date = sorted[1].date
                           /\ output[1].balance = Format2(Minus(b, a))
                           /\ (sorted[1].balance = "1000.00" /\ sorted[1].amount = "200.00")
                                 => output[1].balance = "800.00"
                      ELSE output = sorted

\* the example: balance 1000.00 and amount 200.00 give an opening balance of 800.00
C7_Witness ==
    /\ pc = "done" /\ variant = "v2"
    /\ Len(output) >= 3
    /\ output[1] = Txn("01/01/2023", "Opening balance", "", "800.00")
    /\ output[2] = Txn("01/01/2023", "Deposit", "200.00", "1000.00")
    /\ \A k \in 1..Len(transactions) : ~is_opening(transactions[k])

-----------------------------------------------------------------------------
(* Claims about the whole pipeline.                                        *)

\* the positions of the output that hold an opening-balance record
OpeningPositions == {i \in 1..Len(output) : is_opening(output[i])}

\* C2 as stated: in either variant the returned list holds at most one record
\* whose description contains 'opening balance', and that record is the first.
C2_AtMostOneOpeningAtFront ==
    Returned => OpeningPositions \subseteq {1}

\* C4 as stated: cleaning the cleaned list once more gives the same list,
\* f(f(L)) = f(L).
C4_Idempotent ==
    pc = "rerun" => again = output

\* C5 as stated: every record a parse path produced with a non-empty amount has
\* an amount > 0 when its description contains a credit keyword, and an
\* amount < 0 otherwise.
C5_SignLaw ==
    \A k \in 1..Len(transactions) :
        transactions[k].amount # "" =>
            \A amount \in {ParseFloat(transactions[k].amount)} :
                /\ amount.ok
                /\ IF is_credit(variant, transactions[k].description)
                   THEN Positive(amount)
                   ELSE Negative(amount)

\* the explicit opening balance of each page
ExplicitOpening == [page \in PageInputs |-> find_opening_balance_in_text(page.text)]

\* the explicit opening-balance records of the pages read
ExplicitOpenings == {ExplicitOpening[pages[k]] : k \in 1..pageNo} \ {None}

\* C8 (app-v2.py): when the pages gave at least one explicit opening-balance
\* record, the output holds exactly one opening-balance record, it is the first
\* record of the output and it is one of the explicit records: none is
\* synthesized, however many pages gave one.
C8_ExplicitOpeningWins ==
    (Returned /\ variant = "v2" /\ ExplicitOpenings # {}) =>
        /\ OpeningPositions = {1}
        /\ output[1] \in ExplicitOpenings

\* two pages gave two different explicit opening balances; the output starts
\* with one of them, holds no other, and keeps the pages' other records
C8_Witness ==
    /\ pc = "done" /\ variant = "v2"
    /\ Cardinality(ExplicitOpenings) = 2
    /\ output[1] \in ExplicitOpenings
    /\ OpeningPositions = {1}
    /\ Len(output) = Len(transactions) - 1

\* the record the variant's line parser makes of one line of page text
line_record(v, line) ==
    IF v = "app" THEN parse_transaction_line(strip(line)) ELSE parse_text_line(strip(line))

\* the pairs of records of two lines of a page that hold a date, differ only in
\* trailing whitespace or in letter case, and give records that agree in date,
\* balance and the first 20 characters of the description
CollapsingPairs ==
    [v \in Variants, page \in PageInputs |->
        With(split_lines(page.text), LAMBDA lines :
        With([i \in 1..Len(lines) |->
                 IF has_date(lines[i], v = "v2") THEN line_record(v, lines[i]) ELSE None],
             LAMBDA records :
            {<<records[ij[1]], records[ij[2]]>> :
                ij \in {ij \in (1..Len(lines)) \X (1..Len(lines)) :
                    /\ ij[1] < ij[2]
                    /\ lines[ij[1]] # lines[ij[2]]
                    /\ lower(rstrip(lines[ij[1]])) = lower(rstrip(lines[ij[2]]))
                    /\ records[ij[1]] # None
                    /\ records[ij[2]] # None
                    /\ SameKey(records[ij[1]], records[ij[2]])}}))]

\* how many records of the output have the key of record r
KeyCount(r) == Cardinality({i \in 1..Len(output) : SameKey(output[i], r)})

is_skip_line(line) ==
    \E ln \in {line} : has_date(ln, FALSE) /\ AnyIn(line_skip_phrases, lower(ln))

\* the text without its lines that hold a date and a skip phrase
RECURSIVE join_kept_lines(_)
join_kept_lines(lines) ==
    With(lines, LAMBDA ls :
        IF ls = <<>> THEN ""
        ELSE With(join_kept_lines(Tail(ls)), LAMBDA rest :
                 IF is_skip_line(Head(ls)) THEN rest
                 ELSE IF rest = "" THEN Head(ls)
                 ELSE Head(ls) \o "\n" \o rest))

without_skip_lines(text) == join_kept_lines(split_lines(text))

\* what app.py reads from each page when the dated lines with a skip phrase are
\* taken out of the text that _process_transaction_text is given
ParsedWithoutSkipLines ==
    [page \in PageInputs |->
        IF has_meaningful_text(page.text)
        THEN With(without_skip_lines(page.text), LAMBDA text :
                 process_transaction_text(text) \o process_tables("app", page.tables))
        ELSE IF page.ocr # "" /\ Len(strip(page.ocr)) > OcrLen
        THEN With(without_skip_lines(page.ocr), LAMBDA ocr :
                 process_transaction_text(ocr) \o parse_ocr_lines(split_lines(ocr)))
        ELSE <<>>]

RECURSIVE records_of(_, _)
records_of(parsed, doc) ==
    With(doc, LAMBDA d :
        IF d = <<>> THEN <<>> ELSE parsed[Head(d)] \o records_of(parsed, Tail(d)))

\* C10 as stated (app.py): a line of page text that holds a date and a skip
\* phrase contributes no record to the output, wherever the phrase stands: the
\* output is the output of the same pages without those lines.
C10_SkipLinesContributeNothing ==
    (Returned /\ variant = "app") =>
        output = clean_and_format_transactions("app", records_of(ParsedWithoutSkipLines, pages))

-----------------------------------------------------------------------------
(* Claims about the parsers of one line.                                   *)

\* a parser was handed the line and gave a record
Parsed(p) == path = p /\ Len(transactions) = 1

\* C11 as stated: the line '21/01/2023 Herd2 - 1213779758 2,000.00 4,549.98'
\* gives exactly the record {21/01/2023, 'Herd2 1213779758', '2000.00', '4549.98'}.
C11_ScenarioA_AsStated ==
    (entry = ScenarioA /\ path = "text") =>
        transactions = <<Txn("21/01/2023", "Herd2 1213779758", "2000.00", "4549.98")>>

\* C11 amended: the line gives exactly one record, with date '21/01/2023', amount
\* '2000.00' (positive, credit keyword 'herd2') and balance '4549.98' (the
\* trailing token); the hyphen stays in the description, and the long reference
\* number stays in app-v2.py ('Herd2 - 1213779758') and is removed in app.py
\* ('Herd2 -').
C11_ScenarioA ==
    (entry = ScenarioA /\ path = "text") =>
        transactions =
            <<Txn("21/01/2023",
                  IF variant = "app" THEN "Herd2 -" ELSE "Herd2 - 1213779758",
                  "2000.00", "4549.98")>>

\* app.py has parsed the line of Scenario A
C11_Witness ==
    /\ entry = ScenarioA /\ variant = "app" /\ Parsed("text")
    /\ transactions[1].amount = "2000.00"

\* a decimal string with exactly two digits behind the point, no separators
TwoDecimals(s) ==
    \E t \in {s} :
        \E body \in {IF t # "" /\ Head(t) = "-" THEN Tail(t) ELSE t} :
            /\ Len(body) >= 4
            /\ AllDigits(SubSeq(body, 1, Len(body) - 3))
            /\ Char(body, Len(body) - 2) = "."
            /\ AllDigits(SubSeq(body, Len(body) - 1, Len(body)))

\* the records the parser gave and the records of the returned list
Emitted == {transactions[i] : i \in 1..Len(transactions)} \cup {output[i] : i \in 1..Len(output)}

\* C12 as stated: every non-empty amount and every non-empty balance of an
\* emitted record is a decimal string with exactly two digits behind the point
\* and no thousands separators, on every parse path.
C12_TwoDecimalPlaces ==
    \A r \in Emitted :
        /\ r.amount # "" => TwoDecimals(r.amount)
        /\ r.balance # "" => TwoDecimals(r.balance)

\* DD/MM/YYYY: two digits, a slash, two digits, a slash, four digits
DateShape(s) ==
    \E t \in {s} :
        /\ Len(t) = 10
        /\ AllDigits(SubSeq(t, 1, 2)) /\ Char(t, 3) = "/"
        /\ AllDigits(SubSeq(t, 4, 5)) /\ Char(t, 6) = "/"
        /\ AllDigits(SubSeq(t, 7, 10))

\* C13: the date of every emitted record has the shape DD/MM/YYYY, on every
\* parse path, the search for the explicit opening balance included: the date
\* token '1/2/2023' of the line becomes '01/02/2023' and the date token
\* '21/01/2023' stays '21/01/2023'.
C13_DatesZeroPadded ==
    \A r \in Emitted :
        /\ DateShape(r.date)
        /\ entry.date = "1/2/2023" => r.date = "01/02/2023"
        /\ entry.date = "21/01/2023" => r.date = "21/01/2023"

\* the search for the opening balance gave a record for a line dated 1/2/2023
C13_Witness ==
    /\ entry.date = "1/2/2023" /\ Parsed("opening")
    /\ transactions[1].date = "01/02/2023"

\* the entry went down one of the paths that parse a line or a row
LineOrRow == path \in {"text", "table"}

\* the numeric tokens of the entry are the numbers of its line
PlainEntry == \A i \in 1..Len(entry.description) : ~IsDigit(Char(entry.description, i))

\* the tokens of the entry with a value in [0.01, 999999999]
Remaining == SelectSeq(entry.tokens, in_range)

\* the remaining tokens in front of the balance token that meet the threshold
MaterialBefore ==
    {i \in 1..(Len(Remaining) - 1) :
        AtLeastCents(ParseFloat(no_commas(Remaining[i])), MaterialityCents)}

\* an amount without its sign
Magnitude(amount) ==
    With(amount, LAMBDA t : IF t # "" /\ Head(t) = "-" THEN Tail(t) ELSE t)

\* C17 as stated: when two or more in-range tokens precede the balance token,
\* the magnitude of the amount is the token nearest the balance that meets the
\* materiality threshold (the scan goes right to left).
C17_AmountNearestBalance ==
    (LineOrRow /\ PlainEntry /\ Len(Remaining) >= 3 /\ MaterialBefore # {}) =>
        /\ Len(transactions) = 1
        /\ Magnitude(transactions[1].amount) = no_commas(Remaining[MaxOf(MaterialBefore)])

\* every token of the entry is written with two decimals
DecimalTokens ==
    \A i \in 1..Len(entry.tokens) : TwoDecimals(no_commas(entry.tokens[i]))

\* C18 as stated: on every parse path a token with a value outside
\* [0.01, 999999999] never becomes the balance or the amount of a record; the
\* balance is the rightmost remaining token, and the amount is absent when that
\* is the only remaining token.  (Stated for lines whose tokens all have two
\* decimals, which every pattern of the parsers reads as tokens.)
C18_OutOfRangeDiscarded ==
    (LineOrRow /\ PlainEntry /\ DecimalTokens /\ Len(transactions) = 1) =>
        /\ transactions[1].balance # "" => in_range(transactions[1].balance)
        /\ transactions[1].amount # "" => in_range(Magnitude(transactions[1].amount))
        /\ Remaining # <<>> =>
              transactions[1].balance = no_commas(Remaining[Len(Remaining)])
        /\ Len(Remaining) = 1 => transactions[1].amount = ""

\* C19 as stated: on every parse path, a line or row with two or more numeric
\* tokens of which none in front of the balance meets the materiality threshold
\* gives a record with the balance set and the amount absent.
C19_AmountAbsentWhenNoneMaterial ==
    (LineOrRow /\ PlainEntry /\ Len(Remaining) >= 2 /\ MaterialBefore = {}) =>
        /\ Len(transactions) = 1
        /\ transactions[1].balance # ""
        /\ transactions[1].amount = ""

\* C20 as stated: a dated line or row without a monetary token gives no record
\* on any parse path; every record of a parse path has a non-empty balance.
C20_NoRecordWithoutToken ==
    LineOrRow =>
        /\ entry.tokens = <<>> /\ PlainEntry => transactions = <<>>
        /\ \A i \in 1..Len(transactions) : transactions[i].balance # ""

-----------------------------------------------------------------------------
(* Claims about extract_transactions_from_pdf.                             *)

\* what the variant reads from each page
PageRecords == [page \in PageInputs |-> ParsedPages[variant, page]]

\* C14: the page loop only appends each page's records to the list, nothing is
\* returned before the last page is read, the list returned is
\* _clean_and_format_transactions of the records of all the pages, it is made
\* in one step and not touched again; so no two records of the returned list
\* share a key, whichever pages they came from.
C14_CleanedOnceAfterAllPages ==
    /\ [][ /\ (pc = "pages" /\ pc' = "pages") =>
                /\ output' = <<>>
                /\ transactions' = transactions \o PageRecords[pages[pageNo + 1]]
           /\ (pc = "pages" /\ pc' = "done") =>
                /\ pageNo = Len(pages)
                /\ transactions = records_of(PageRecords, pages)
                /\ output' = clean_and_format_transactions(variant, transactions)
           /\ pc = "done" => output' = output ]_vars
    /\ [](Returned => \A i, j \in 1..Len(output) : i < j => ~SameKey(output[i], output[j]))

\* two pages gave one record each with the same key, and the returned list
\* holds that key once
C14_Witness ==
    /\ pc = "done" /\ Len(pages) = 2
    /\ \E i \in 1..Len(PageRecords[pages[1]]), j \in 1..Len(PageRecords[pages[2]]) :
          /\ SameKey(PageRecords[pages[1]][i], PageRecords[pages[2]][j])
          /\ KeyCount(PageRecords[pages[1]][i]) = 1

-----------------------------------------------------------------------------
(* More claims about the Deduplicator & Sequencer.                         *)

\* the deduplicated records, in insertion order
Unique == unique_transactions(variant, transactions)

-----------------------------------------------------------------------------
(* Claims about the shared parser.                                         *)

\* what a call on a document returns when it runs alone
AloneOutput ==
    [v \in Variants, doc \in CallDocs |->
        clean_and_format_transactions(v,
            records_of([page \in PageInputs |-> ParsedPages[v, page]], doc))]

\* C16: whatever the interleaving of the steps of two calls on one parser, the
\* attributes of the parser stay as __init__ set them, and each call returns
\* the list it returns when it runs alone on its pdf.
C16_CallsDoNotInterfere ==
    pc = "calls" =>
        /\ parser = new_parser(variant)
        /\ \A c \in Callers :
              calls[c].pc = "done" => calls[c].output = AloneOutput[variant, calls[c].pages]

\* call 1 has returned a list while call 2, on another pdf, has read a page and
\* not yet returned
C16_Witness ==
    /\ pc = "calls"
    /\ calls[1].pc = "done" /\ calls[1].output # <<>>
    /\ calls[2].pc = "pages" /\ calls[2].pageNo >= 1 /\ calls[2].transactions # <<>>
    /\ calls[1].pages # calls[2].pages

-----------------------------------------------------------------------------
(* Claims about the line-based path.                                       *)

\* the lines of the text behind its header
StatementLines == IF pages = <<>> THEN <<>> ELSE Tail(split_lines(pages[1].text))

\* the lines without a date that follow a line with a date
Continuations ==
    {k \in 2..Len(StatementLines) :
        StatementLines[k] = ContinuationLine /\ StatementLines[k - 1] \in DatedLines}

\* the records the line-based path gave, or the returned list once there is one
TextRecords ==
    IF Returned THEN {output[i] : i \in 1..Len(output)}
    ELSE {transactions[i] : i \in 1..Len(transactions)}

\* C21 as stated: in line-based mode a non-empty line without a date that
\* follows an accepted transaction line is appended to the description of the
\* record of that line, so its text is in that record's description.
C21_ContinuationAppended ==
    (pageNo = 1 /\ pages # <<>> /\ pages[1].text \in TextInputs) =>
        \A k \in Continuations :
            \E r \in TextRecords :
                /\ r.date = Prefix(StatementLines[k - 1], 10)
                /\ Contains(r.description, ContinuationLine)

-----------------------------------------------------------------------------
(* Claims about the explicit opening balance.                              *)

\* the tokens of the entry with a value over the noise floor, as a record
\* shows them
BalanceTokens ==
    {no_commas(entry.tokens[k]) :
        k \in {j \in 1..Len(entry.tokens) : over_noise_floor(entry.tokens[j])}}

\* C22 as stated: the balance of the record of the opening-balance search is
\* a monetary token over 100 of the window, never a piece of a date; the line
\* '01/01/2023 Opening balance 5,000.00' gives {01/01/2023, 'Opening balance',
\* no amount, '5000.00'}.
C22_OpeningBalanceIsToken ==
    path = "opening" =>
        /\ \A i \in 1..Len(transactions) : transactions[i].balance \in BalanceTokens
        /\ entry = OpeningEntry =>
              transactions = <<Txn("01/01/2023", "Opening balance", "", "5000.00")>>

-----------------------------------------------------------------------------
(* The frame of the Deduplicator & Sequencer.                              *)

InputRecords == {transactions[i] : i \in 1..Len(transactions)}

\* the places of the output that hold a record that was not in the input
Synthesized == {k \in 1..Len(output) : output[k] \notin InputRecords}

\* the input places with the key of record r
SameKeyPlaces(r) == {i \in 1..Len(transactions) : dedup_key(transactions[i]) = dedup_key(r)}

\* the input places the final pass does not filter out as statement-period rows
Considered == {i \in 1..Len(transactions) : ~clean_skips(variant, transactions[i])}

\* every record of the output is an input record as it was or, in app-v2.py,
\* the one synthesized opening balance, and the output has at most one record
\* more than the input
FrameOfRecords ==
    /\ \A k \in Synthesized : variant = "v2" /\ k = 1 /\ is_opening(output[k])
    /\ Cardinality(Synthesized) <= 1
    /\ Len(output) <= Len(transactions) + 1

\* C23 as stated: every output record is an unchanged input record or the one
\* synthesized opening balance of app-v2.py, the output has at most one record
\* more than the input, and of the input records with one dedup key the one
\* kept is the first in input order.
C23_Frame_AsStated ==
    pc = "done" =>
        /\ FrameOfRecords
        /\ \A k \in 1..Len(output) :
              output[k] \in InputRecords =>
                  output[k] = transactions[MinOf(SameKeyPlaces(output[k]))]

\* C23 amended: as stated, except that the record kept is the first in input
\* order of the records with its key that the final pass considers: app.py
\* leaves out the records whose description holds a statement-period phrase
\* before it looks at keys, so a later record with the key of such a row is kept.
C23_Frame ==
    pc = "done" =>
        /\ FrameOfRecords
        /\ \A k \in 1..Len(output) :
              output[k] \in InputRecords =>
                  output[k] = transactions[MinOf(SameKeyPlaces(output[k]) \cap Considered)]

\* app.py has dropped a statement-period row and kept a later, different record
\* with the same key
C23_Witness ==
    /\ pc = "done"
    /\ variant = "app"
    /\ \E i, j \in 1..Len(transactions) :
          /\ i < j
          /\ clean_skips(variant, transactions[i])
          /\ transactions[i] # transactions[j]
          /\ dedup_key(transactions[i]) = dedup_key(transactions[j])
          /\ \E k \in 1..Len(output) : output[k] = transactions[j]

====
